---- MODULE Spec2Model ----
(***************************************************************************)
(* Model of image_compressor.py: the compression engine                    *)
(* (ImageCompressor.compress_image and its helpers) acting on a small      *)
(* file system, the batch worker of the desktop UI, and the steps of the   *)
(* encoding pipeline on small images.                                      *)
(*                                                                         *)
(* Python strings are modelled as tuples of one-character strings so that  *)
(* upper(), replace() and pathlib's stem/suffix are computed, not assumed. *)
(***************************************************************************)
EXTENDS Integers, Sequences, FiniteSets, TLC

VARIABLES
    fs,        \* the files on disk
    config,    \* ImageCompressor.config
    last,      \* the latest compress_image call and what it returned
    handed,    \* the latest step taken on inputs of its own (a step of the
               \* encoding pipeline, a directory scan): inputs and result
    ui,        \* ImageCompressorApp: widgets and the cards of the image grid
    queue,     \* callbacks scheduled with self.after(0, ...), oldest first
    workers    \* the compress_thread of each batch

vars == <<fs, config, last, handed, ui, queue, workers>>

appvars == <<ui, queue, workers>>

\* Python's None where a string or a path is expected: no string equals it
None == <<"None">>

(***************************************************************************)
(* Strings                                                                 *)
(***************************************************************************)
LowerCase == <<"a","b","c","d","e","f","g","h","i","j","k","l","m",
               "n","o","p","q","r","s","t","u","v","w","x","y","z">>
UpperCase == <<"A","B","C","D","E","F","G","H","I","J","K","L","M",
               "N","O","P","Q","R","S","T","U","V","W","X","Y","Z">>

\* str.upper() on one character
UpperChar(c) ==
    IF \E i \in 1..26 : LowerCase[i] = c
    THEN UpperCase[CHOOSE i \in 1..26 : LowerCase[i] = c]
    ELSE c

\* str.upper()
Upper(s) == [i \in 1..Len(s) |-> UpperChar(s[i])]

\* str.replace(c, '')
RECURSIVE RemoveChar(_, _)
RemoveChar(s, c) ==
    IF s = <<>> THEN <<>>
    ELSE IF Head(s) = c THEN RemoveChar(Tail(s), c)
    ELSE <<Head(s)>> \o RemoveChar(Tail(s), c)

\* str.rfind('.') as a 1-based index, 0 when there is no dot
LastDot(name) ==
    IF \E i \in 1..Len(name) : name[i] = "."
    THEN CHOOSE i \in 1..Len(name) :
            /\ name[i] = "."
            /\ \A j \in (i+1)..Len(name) : name[j] # "."
    ELSE 0

\* pathlib PurePath.suffix: from the last dot, unless the dot is the first
\* or the last character of the name
Suffix(name) ==
    LET i == LastDot(name)
    IN  IF 1 < i /\ i < Len(name) THEN SubSeq(name, i, Len(name)) ELSE <<>>

\* pathlib PurePath.stem
Stem(name) ==
    LET i == LastDot(name)
    IN  IF 1 < i /\ i < Len(name) THEN SubSeq(name, 1, i - 1) ELSE name

(***************************************************************************)
(* File system: one directory, a function from the names of the files      *)
(* that exist to their bytes                                               *)
(***************************************************************************)
MaxLen == 3

Byte == {0, 1}

\* the byte strings files and buffers are drawn from: up to MaxLen bytes, all
\* of one value
Contents == {[i \in 1..n |-> b] : n \in 0..MaxLen, b \in Byte}

\* Path.exists()
Exists(f, p) == p \in DOMAIN f

\* the file system after p was created or truncated and b written to it
Write(f, p, b) == [q \in DOMAIN f \cup {p} |-> IF q = p THEN b ELSE f[q]]

\* st_size
Size(f, p) == Len(f[p])

Prefixes(b) == {SubSeq(b, 1, k) : k \in 0..Len(b)}

ProperPrefixes(b) == {SubSeq(b, 1, k) : k \in 0..(Len(b) - 1)}

a_png          == <<"a",".","p","n","g">>
a_original_png == <<"a","_","o","r","i","g","i","n","a","l",".","p","n","g">>
a_bak_png      == <<"a","_","b","a","k",".","p","n","g">>
b_jpg          == <<"b",".","j","p","g">>
b_original_jpg == <<"b","_","o","r","i","g","i","n","a","l",".","j","p","g">>

Paths == {a_png, a_original_png, a_bak_png, b_jpg, b_original_jpg}

\* the files compress_image is called on: an image, and the file that is its
\* backup under the default suffix (missing at first)
Images == {a_png, a_original_png}

(***************************************************************************)
(* CompressionConfig                                                       *)
(***************************************************************************)
DefaultQuality == 85
DefaultPngCompressLevel == 9

OriginalSuffix == <<"_","o","r","i","g","i","n","a","l">>
BakSuffix      == <<"_","b","a","k">>

CompressionConfig ==
    [quality            |-> DefaultQuality,
     png_optimize       |-> TRUE,
     png_compress_level |-> DefaultPngCompressLevel,
     preserve_metadata  |-> FALSE,
     create_backup      |-> TRUE,
     backup_suffix      |-> OriginalSuffix,
     output_format      |-> None,
     progressive_jpeg   |-> TRUE]

BackupSuffixes == {<<>>, OriginalSuffix, BakSuffix}

\* f"{image_path.stem}{self.config.backup_suffix}{image_path.suffix}"
BackupPath(p, cfg) == Stem(p) \o cfg.backup_suffix \o Suffix(p)

(***************************************************************************)
(* ImageCompressor.compress_image                                          *)
(***************************************************************************)
Compressed == "Compressed"
AlreadyOptimized == "Already optimized (no changes made)"
Error == "Error"

\* the (success, new_size, message) tuple compress_image returns
Result(ok, size, msg) == [success |-> ok, new_size |-> size, message |-> msg]

\* what one call did: its arguments, its return value, and how far it got.
\* raised: the step whose exception was caught ("none" when none was raised)
\* encoded: the codec produced a buffer; buffer: its bytes (empty otherwise)
Call(p, out, res, raised, copied, enc, buf, written) ==
    [path |-> p, output_path |-> out, result |-> res, raised |-> raised,
     backup_created |-> copied, encoded |-> enc, buffer |-> buf,
     wrote |-> written]

NoCall == Call(None, None, Result(FALSE, 0, "none"), "none", FALSE, FALSE, <<>>, FALSE)

\* before any step of the encoding pipeline has been taken
NoStep == [op |-> "none", done |-> FALSE]

\* One call's outcome is a pair <<the file system after it, what it did>>;
\* the operators below give the outcomes a call can have.
Outcome(f, call) == <<f, call>>

\* shutil.copy2(src, dst) completed
Copy2_Empty(f, src, dst) == Write(f, dst, <<>>)

Copy2(f, src, dst) == Write(f, dst, f[src])

\* what a copy2 that raises can leave behind: no dst when src is missing or
\* dst could not be created, otherwise a dst holding the bytes copied so far
Copy2Raised(f, src, dst) ==
    {f} \cup (IF Exists(f, src) THEN {Write(f, dst, b) : b \in Prefixes(f[src])}
             ELSE {})

\* the buffers the codec may produce for an image: any bytes, never none
Encodings == Contents \ {<<>>}

\* Image.open identifies the file by its first bytes: an empty file is no image
Identifiable(f, p) == Exists(f, p) /\ Size(f, p) > 0

\* "Only save if we achieved compression"
ShouldWrite_Unequal(compressed_size, original_size) ==
    compressed_size # original_size

ShouldWrite_OrEqual(compressed_size, original_size) ==
    compressed_size <= original_size

ShouldWrite(compressed_size, original_size) ==
    compressed_size < original_size

\* compare the buffer with the file on disk, write it if it is smaller
SaveIfSmaller(f, image_path, output_path, copied, buffer) ==
    LET compressed_size == Len(buffer)
        original_size   == Size(f, image_path)
        failed(at)      == Call(image_path, output_path, Result(FALSE, 0, Error),
                                at, copied, TRUE, buffer, FALSE)
    IN  IF ShouldWrite(compressed_size, original_size)
        THEN {Outcome(Write(f, output_path, buffer),
                      Call(image_path, output_path,
                           Result(TRUE, compressed_size, Compressed),
                           "none", copied, TRUE, buffer, TRUE))}
             \cup \* open(output_path, 'wb') raises: nothing is truncated
             {Outcome(f, failed("write_open"))}
             \cup \* f.write raises after the file was truncated
             {Outcome(Write(f, output_path, partial), failed("write")) :
                 partial \in ProperPrefixes(buffer)}
        ELSE {Outcome(f, Call(image_path, output_path,
                              Result(TRUE, original_size, AlreadyOptimized),
                              "none", copied, TRUE, buffer, FALSE))}

\* open the image, transform it and encode it into a buffer: the codec may
\* raise at either step and may produce any bytes
OpenAndEncode_Direct(f, image_path, output_path, copied) ==
    LET failed(at) == Call(image_path, output_path, Result(FALSE, 0, Error),
                           at, copied, FALSE, <<>>, FALSE)
    IN  {Outcome(f, failed("open"))}
        \cup
        (IF Identifiable(f, image_path)
         THEN {Outcome(Write(f, output_path, <<>>), failed("encode"))}
              \cup UNION {SaveIfSmaller(f, image_path, output_path, copied, buffer) :
                             buffer \in Encodings}
         ELSE {})

OpenAndEncode(f, image_path, output_path, copied) ==
    LET failed(at) == Call(image_path, output_path, Result(FALSE, 0, Error),
                           at, copied, FALSE, <<>>, FALSE)
    IN  \* Image.open raises: always when the file is missing or empty
        {Outcome(f, failed("open"))}
        \cup
        (IF Identifiable(f, image_path)
         THEN \* a mode conversion or img.save raises
              {Outcome(f, failed("encode"))}
              \cup UNION {SaveIfSmaller(f, image_path, output_path, copied, buffer) :
                             buffer \in Encodings}
         ELSE {})

\* "Create backup if configured": is a backup wanted, and is one to be made
BackupWanted(cfg, image_path, output_path) ==
    cfg.create_backup /\ output_path = image_path

BackupMissing_Always(f, backup_path) == TRUE

BackupMissing(f, backup_path) == ~Exists(f, backup_path)

\* if output_path is None: output_path = image_path
OutputPath(image_path, output_path_arg) ==
    IF output_path_arg = None THEN image_path ELSE output_path_arg

\* the outcomes of compress_image(image_path, output_path_arg) on files f
\* under configuration cfg
CompressImage(f, cfg, image_path, output_path_arg) ==
    LET output_path == OutputPath(image_path, output_path_arg)
        backup_path == BackupPath(image_path, cfg)
    IN  IF BackupWanted(cfg, image_path, output_path)
           /\ BackupMissing(f, backup_path)
        THEN \* shutil.copy2 raises
             {Outcome(g, Call(image_path, output_path, Result(FALSE, 0, Error),
                              "backup", FALSE, FALSE, <<>>, FALSE)) :
                 g \in Copy2Raised(f, image_path, backup_path)}
             \cup
             (IF Exists(f, image_path)
              THEN OpenAndEncode(Copy2(f, image_path, backup_path),
                                 image_path, output_path, TRUE)
              ELSE {})
        ELSE OpenAndEncode(f, image_path, output_path, FALSE)

\* the model keeps to calls whose backup path is one of Paths
WithinPaths(cfg, image_path, output_path_arg) ==
    BackupWanted(cfg, image_path, OutputPath(image_path, output_path_arg))
        => BackupPath(image_path, cfg) \in Paths

(***************************************************************************)
(* The engine used as a library: a caller sets the configuration and calls *)
(* compress_image in place (output_path left to its default, as the UI     *)
(* does), one call at a time.                                              *)
(***************************************************************************)
Configs ==
    {[CompressionConfig EXCEPT !.create_backup = b, !.backup_suffix = s] :
        b \in BOOLEAN, s \in BackupSuffixes}

SetConfig ==
    /\ \E c \in Configs : c # config /\ config' = c
    /\ UNCHANGED <<fs, last, handed, appvars>>

Compress ==
    /\ \E p \in Images :
          /\ WithinPaths(config, p, None)
          /\ \E o \in CompressImage(fs, config, p, None) :
                /\ fs' = o[1]
                /\ last' = o[2]
    /\ UNCHANGED <<config, handed, appvars>>

\* no window: the engine alone
NoApp == <<>>

\* a directory holding one image and no backup of it
Init ==
    /\ \E b \in Encodings : fs = [p \in {a_png} |-> b]
    /\ config = CompressionConfig
    /\ last = NoCall
    /\ handed = NoStep
    /\ ui = NoApp
    /\ queue = <<>>
    /\ workers = <<>>

Next == SetConfig \/ Compress

Spec == Init /\ [][Next]_vars

(***************************************************************************)
(* Claims about compress_image (checked under Spec)                        *)
(***************************************************************************)
\* a step of Spec that is a compress_image call: SetConfig changes config
CallStep == config' = config

\* the bytes of p, or no file
SameFile(f, g, p) ==
    IF Exists(f, p) THEN Exists(g, p) /\ g[p] = f[p] ELSE ~Exists(g, p)

\* C1: an in-place compress_image call never grows a file: after every call,
\* succeeding or failing, every file that existed is still there and holds
\* at most as many bytes as before the call.
C1_NeverGrows ==
    [][\A p \in DOMAIN fs : Exists(fs', p) /\ Size(fs', p) <= Size(fs, p)]_vars

\* C1 witness: a call has overwritten the image with a smaller buffer.
C1_Witness ==
    /\ last.wrote
    /\ last.path = a_png
    /\ fs[a_png] = last.buffer

\* C2: an existing backup is never clobbered: a compress_image call on an
\* image changes no other file that already exists (so not the file at its
\* backup path, whatever create_backup and backup_suffix are), and copies a
\* backup only to a path where no file exists: a backup is written once.
C2_BackupNeverClobbered ==
    [][CallStep =>
         LET p == last'.path
         IN  /\ \A q \in DOMAIN fs \ {p} : SameFile(fs, fs', q)
             /\ last'.backup_created => ~Exists(fs, BackupPath(p, config))]_vars

\* C2 witness: with create_backup on and a backup next to the image, a later
\* call found the backup, made none, and overwrote the image.
C2_Witness ==
    /\ last.path = a_png
    /\ config.create_backup
    /\ BackupPath(a_png, config) # a_png
    /\ Exists(fs, BackupPath(a_png, config))
    /\ ~last.backup_created
    /\ last.wrote
    /\ fs[BackupPath(a_png, config)] # fs[a_png]

OverwriteDecision(f, g, call) ==
    LET p == call.path
    IN  IF Len(call.buffer) < Size(f, p)
        THEN /\ g[p] = call.buffer
             /\ call.result = Result(TRUE, Len(call.buffer), Compressed)
        ELSE /\ g[p] = f[p]
             /\ call.result = Result(TRUE, Size(f, p), AlreadyOptimized)

\* C4 as claimed: whenever encoding succeeds, the file is overwritten iff
\* the buffer is strictly smaller than the file, with the success results.
C4_Original ==
    [][(CallStep /\ last'.encoded) => OverwriteDecision(fs, fs', last')]_vars

\* C4 amended: whenever encoding succeeds and the write raises nothing, the
\* file is overwritten iff the buffer is strictly smaller than the file,
\* with the success results; when opening or writing the output raises, the
\* call returns (False, 0, 'Error') and the file holds less than the
\* buffer (all of its old bytes if the open failed).
C4_OverwriteDecision ==
    [][(CallStep /\ last'.encoded) =>
         IF last'.raised = "none"
         THEN OverwriteDecision(fs, fs', last')
         ELSE /\ last'.result = Result(FALSE, 0, Error)
              /\ Len(last'.buffer) < Size(fs, last'.path)
              /\ \/ fs'[last'.path] = fs[last'.path]
                 \/ fs'[last'.path] \in ProperPrefixes(last'.buffer)]_vars

\* C4 witness: an encode of exactly the file's size but of different bytes,
\* which was not written: the tie is decided against the overwrite.
C4_Witness ==
    /\ last.encoded
    /\ last.raised = "none"
    /\ last.path = a_png
    /\ ~last.wrote
    /\ Len(last.buffer) = Size(fs, a_png)
    /\ last.buffer # fs[a_png]
    /\ last.result = Result(TRUE, Size(fs, a_png), AlreadyOptimized)

\* C5: an exception raised while backing up, opening, transforming or
\* encoding is caught: the call returns (False, 0, 'Error') and the original
\* file holds the bytes it held before the call.
C5_FailureLeavesOriginal ==
    [][(CallStep /\ last'.raised \in {"backup", "open", "encode"}) =>
         /\ last'.result = Result(FALSE, 0, Error)
         /\ SameFile(fs, fs', last'.path)]_vars

\* C5 witness: encoding raised after the backup was made; the image is there.
C5_Witness ==
    /\ last.raised = "encode"
    /\ last.backup_created
    /\ Exists(fs, last.path)

(***************************************************************************)
(* ImageCompressorApp: the window, its event queue and the batch worker    *)
(***************************************************************************)
MaxBatches == 1

SliderMin == 50

\* values the quality slider is moved to
SliderValues == {SliderMin, DefaultQuality}

\* Optional[int]: None is <<>>, n is <<n>>
NoSize == <<>>

\* ImageInfo, as get_image_info builds it for a file of the directory
ImageInfo(f, p) ==
    [path |-> p, original_size |-> Size(f, p), compressed_size |-> NoSize,
     is_selected |-> FALSE]

\* ScrollableImageGrid.get_selected: the selected cards in insertion order
RECURSIVE get_selected(_)
get_selected(cards) ==
    IF cards = <<>> THEN <<>>
    ELSE (IF Head(cards).is_selected THEN <<Head(cards).path>> ELSE <<>>)
         \o get_selected(Tail(cards))

\* ScrollableImageGrid.get_card: is there a card for this path
get_card(cards, p) == \E k \in 1..Len(cards) : cards[k].path = p

\* ImageCard.update_compression_status
update_compression_status(card, new_size, message) ==
    IF new_size # NoSize /\ new_size[1] < card.original_size
    THEN [card EXCEPT !.compressed_size = new_size]
    ELSE card

\* the worker of a batch: where it is in compress_thread, the images it was
\* given, the 1-based index of the current image, the result of the current
\* compress_image call, and the calls it has made, each with its success
\* and the quality it was made with
Unborn == [pc |-> "unborn", selected |-> <<>>, i |-> 0,
           res |-> Result(FALSE, 0, "none"), calls |-> <<>>]

\* ImageCard._on_checkbox_change: the user ticks or unticks a card
ToggleSelect ==
    /\ \E k \in 1..Len(ui.cards) :
          ui' = [ui EXCEPT !.cards[k].is_selected = ~ui.cards[k].is_selected]
    /\ UNCHANGED <<fs, config, last, handed, queue, workers>>

\* the "Create Backups" checkbox sets backup_var
ToggleBackup ==
    /\ ui' = [ui EXCEPT !.backup_var = ~ui.backup_var]
    /\ UNCHANGED <<fs, config, last, handed, queue, workers>>

\* _on_quality_change: the slider sets quality_var and calls the handler
OnQualityChange ==
    /\ \E quality \in SliderValues \ {ui.quality_var} :
          /\ ui' = [ui EXCEPT !.quality_var = quality]
          /\ config' = [config EXCEPT !.quality = quality]
    /\ UNCHANGED <<fs, last, handed, queue, workers>>

\* a plausible slip: the button is left enabled during the batch
BatchStarted_ButtonLeftOn(u) == [u EXCEPT !.progress_shown = TRUE]

\* _compress_selected: the progress widgets are shown and the button is
\* disabled
BatchStarted(u) ==
    [u EXCEPT !.progress_shown = TRUE, !.compress_btn = "disabled"]

\* _compress_selected: the button's command, which a disabled button ignores.
\* At most as many batches are started as there are workers.
CompressSelected ==
    /\ ui.compress_btn = "normal"
    /\ LET selected == get_selected(ui.cards)
       IN  IF selected = <<>>
           THEN UNCHANGED vars
           ELSE \E t \in DOMAIN workers :
                   /\ workers[t].pc = "unborn"
                   /\ \A u \in 1..(t - 1) : workers[u].pc # "unborn"
                   /\ config' = [config EXCEPT
                                    !.create_backup = ui.backup_var,
                                    !.quality = ui.quality_var]
                   /\ ui' = BatchStarted(ui)
                   /\ workers' = [workers EXCEPT ![t] =
                                     [Unborn EXCEPT !.pc = "progress",
                                                    !.selected = selected,
                                                    !.i = 1]]
                   /\ UNCHANGED <<fs, last, handed, queue>>

\* compress_thread, top of the loop body: schedule the progress updates
PostProgress(t) ==
    LET w == workers[t]
    IN  /\ w.pc = "progress"
        /\ queue' = queue \o
              << [kind |-> "progress", num |-> w.i * 100, den |-> Len(w.selected)],
                 [kind |-> "label", path |-> w.selected[w.i]] >>
        /\ workers' = [workers EXCEPT ![t].pc = "compress"]
        /\ UNCHANGED <<fs, config, last, handed, ui>>

\* a plausible slip: a failed call ends the loop
AfterCall_StopOnFailure(res) == IF res.success THEN "status" ELSE "complete"

\* what the loop does with the result of compress_image: it goes on to the
\* status callback, whatever the result
AfterCall(res) == "status"

\* compress_thread: self.compressor.compress_image(img_info.path)
DoCompress(t) ==
    LET w == workers[t]
        p == w.selected[w.i]
    IN  /\ w.pc = "compress"
        /\ WithinPaths(config, p, None)
        /\ \E o \in CompressImage(fs, config, p, None) :
              /\ fs' = o[1]
              /\ workers' = [workers EXCEPT
                    ![t].pc = AfterCall(o[2].result),
                    ![t].res = o[2].result,
                    ![t].calls = Append(w.calls,
                                        <<p, o[2].result.success,
                                          config.quality>>)]
        /\ UNCHANGED <<config, last, handed, ui, queue>>

\* compress_thread, end of the loop body: schedule the card's status update
\* and move to the next image.  total_original and total_compressed feed only
\* the text of the summary box.
PostStatus(t) ==
    LET w == workers[t]
        p == w.selected[w.i]
    IN  /\ w.pc = "status"
        /\ queue' = IF get_card(ui.cards, p)
                    THEN Append(queue,
                           [kind |-> "status", path |-> p,
                            new_size |-> IF w.res.success
                                         THEN <<w.res.new_size>> ELSE NoSize,
                            message |-> w.res.message])
                    ELSE queue
        /\ workers' = [workers EXCEPT
                          ![t].pc = IF w.i < Len(w.selected) THEN "progress"
                                    ELSE "complete",
                          ![t].i = IF w.i < Len(w.selected) THEN w.i + 1
                                   ELSE w.i]
        /\ UNCHANGED <<fs, config, last, handed, ui>>

\* compress_thread after the loop: self.after(0, self._compression_complete)
PostComplete(t) ==
    /\ workers[t].pc = "complete"
    /\ queue' = Append(queue, [kind |-> "complete"])
    /\ workers' = [workers EXCEPT ![t].pc = "summary"]
    /\ UNCHANGED <<fs, config, last, handed, ui>>

\* a thread that has returned: its locals are gone
Done == [Unborn EXCEPT !.pc = "done"]

\* compress_thread: schedule the summary box; the thread ends
PostSummary(t) ==
    /\ workers[t].pc = "summary"
    /\ queue' = Append(queue, [kind |-> "summary"])
    /\ workers' = [workers EXCEPT ![t] = Done]
    /\ UNCHANGED <<fs, config, last, handed, ui>>

WorkerStep ==
    \E t \in DOMAIN workers :
       \/ PostProgress(t)
       \/ DoCompress(t)
       \/ PostStatus(t)
       \/ PostComplete(t)
       \/ PostSummary(t)

\* _compression_complete
compression_complete(u) ==
    [u EXCEPT !.progress_shown = FALSE, !.compress_btn = "normal",
              !.progress_value = <<0, 1>>]

\* the main loop runs the oldest scheduled callback; the texts of the
\* progress label and of the summary box are not part of the state
RunCallback ==
    /\ queue # <<>>
    /\ LET cb == Head(queue)
       IN  ui' = CASE cb.kind = "progress" ->
                        [ui EXCEPT !.progress_value = <<cb.num, cb.den>>]
                   [] cb.kind = "label" -> ui
                   [] cb.kind = "status" ->
                        [ui EXCEPT !.cards =
                            [k \in 1..Len(ui.cards) |->
                                IF ui.cards[k].path = cb.path
                                THEN update_compression_status(
                                        ui.cards[k], cb.new_size, cb.message)
                                ELSE ui.cards[k]]]
                   [] cb.kind = "complete" -> compression_complete(ui)
                   [] cb.kind = "summary" -> ui
    /\ queue' = Tail(queue)
    /\ UNCHANGED <<fs, config, last, handed, workers>>

\* the images the window lists
a_bytes == <<0, 0>>
b_bytes == <<1>>

\* The window once its start-up scan has listed the two images of the
\* directory: nothing selected, the controls at their defaults.
AppInit ==
    /\ fs = (a_png :> a_bytes) @@ (b_jpg :> b_bytes)
    /\ config = CompressionConfig
    /\ last = NoCall
    /\ handed = NoStep
    /\ ui = [cards |-> <<ImageInfo(fs, a_png), ImageInfo(fs, b_jpg)>>,
             backup_var |-> TRUE,
             quality_var |-> DefaultQuality,
             compress_btn |-> "normal",
             progress_shown |-> FALSE,
             progress_value |-> <<0, 1>>]
    /\ queue = <<>>
    /\ workers = [t \in 1..MaxBatches |-> Unborn]

AppNext ==
    \/ ToggleSelect
    \/ ToggleBackup
    \/ OnQualityChange
    \/ CompressSelected
    \/ WorkerStep
    \/ RunCallback

AppSpec == AppInit /\ [][AppNext]_vars

\* the worker thread keeps being scheduled and the main loop keeps running
\* the callbacks it is given
FairAppSpec == AppSpec /\ WF_vars(WorkerStep) /\ WF_vars(RunCallback)

(***************************************************************************)
(* The window under repeated clicks of the compress button, the controls   *)
(* left at their defaults                                                  *)
(***************************************************************************)
MaxClickBatches == 2

ClickInit ==
    /\ fs = (a_png :> a_bytes) @@ (b_jpg :> b_bytes)
    /\ config = CompressionConfig
    /\ last = NoCall
    /\ handed = NoStep
    /\ ui = [cards |-> <<ImageInfo(fs, a_png), ImageInfo(fs, b_jpg)>>,
             backup_var |-> TRUE,
             quality_var |-> DefaultQuality,
             compress_btn |-> "normal",
             progress_shown |-> FALSE,
             progress_value |-> <<0, 1>>]
    /\ queue = <<>>
    /\ workers = [t \in 1..MaxClickBatches |-> Unborn]

ClickNext ==
    \/ ToggleSelect
    \/ CompressSelected
    \/ WorkerStep
    \/ RunCallback

ClickSpec == ClickInit /\ [][ClickNext]_vars

(***************************************************************************)
(* The encoding pipeline of compress_image: target format, encoder options *)
(* and the image handed to the encoder                                     *)
(***************************************************************************)
JPEG == <<"J","P","E","G">>
JPG  == <<"J","P","G">>
PNG  == <<"P","N","G">>
WEBP == <<"W","E","B","P">>
GIF  == <<"G","I","F">>
BMP  == <<"B","M","P">>
TIFF == <<"T","I","F","F">>
jpeg == <<"j","p","e","g">>
png  == <<"p","n","g">>
Webp == <<"W","e","b","p">>
gif  == <<"g","i","f">>

\* format names a caller may put in config.output_format, in any case
FormatNames == {JPEG, JPG, PNG, WEBP, GIF, BMP, TIFF, jpeg, png, Webp, gif}

\* img.format of an opened image: the codec library's name of the format, or
\* None when the library gives none
OriginalFormats == {None, PNG, JPEG, TIFF}

c_Png  == <<"c",".","P","n","g">>
d_jpeg == <<"d",".","j","p","e","g">>

ImagePaths == {a_png, b_jpg, c_Png, d_jpeg}

\* Python's truth value of an optional string: None and '' are false
Truthy(s) == s # None /\ s # <<>>

\* a plausible slip: the configured format is not consulted
TargetFormat_IgnoringConfig(cfg, original_format, image_path) ==
    IF original_format # None
    THEN original_format
    ELSE RemoveChar(Upper(Suffix(image_path)), ".")

\* output_format = self.config.output_format or original_format, and the
\* upper-cased suffix without its dot when that is None
TargetFormat(cfg, original_format, image_path) ==
    LET output_format == IF Truthy(cfg.output_format)
                         THEN cfg.output_format
                         ELSE original_format
    IN  IF output_format = None
        THEN RemoveChar(Upper(Suffix(image_path)), ".")
        ELSE output_format

WebpMethod == 6

\* the empty dict
NoParams == [k \in {} |-> TRUE]

\* a plausible slip: the format name is compared as given
GetSaveParams_CaseSensitive(cfg, format) ==
    IF format \in {JPEG, JPG}
    THEN [quality |-> cfg.quality, optimize |-> TRUE,
          progressive |-> cfg.progressive_jpeg]
    ELSE IF format = PNG
    THEN [optimize |-> cfg.png_optimize,
          compress_level |-> cfg.png_compress_level]
    ELSE IF format = WEBP
    THEN [quality |-> cfg.quality, method |-> WebpMethod]
    ELSE IF format = GIF
    THEN [optimize |-> TRUE]
    ELSE NoParams

\* _get_save_params: the keyword arguments of img.save
GetSaveParams(cfg, format) ==
    LET format_upper == Upper(format)
    IN  IF format_upper \in {JPEG, JPG}
        THEN [quality |-> cfg.quality, optimize |-> TRUE,
              progressive |-> cfg.progressive_jpeg]
        ELSE IF format_upper = PNG
        THEN [optimize |-> cfg.png_optimize,
              compress_level |-> cfg.png_compress_level]
        ELSE IF format_upper = WEBP
        THEN [quality |-> cfg.quality, method |-> WebpMethod]
        ELSE IF format_upper = GIF
        THEN [optimize |-> TRUE]
        ELSE NoParams

\* --- images: a mode and one tuple of band values per pixel ---------------
\* RGB <<r,g,b>>, RGBA <<r,g,b,a>>, L <<l>>, LA <<l,a>>, P <<i>>, PA <<i,a>>;
\* i indexes the palette (from 1); transparency is the alpha the file gives
\* each palette entry (its tRNS data), all opaque when it gives none.
MaxPixels == 2

Opaque == 255

White  == <<255, 255, 255>>
Black  == <<0, 0, 0>>
Orange == <<200, 100, 0>>

Colours == {Black, Orange, White}
Greys   == {0, 100, 255}
Alphas  == {0, 128, Opaque}

ModelPalette == <<Orange, Black>>
Transparencies == {<<Opaque, Opaque>>, <<0, Opaque>>}

PixelsOf(mode) ==
    CASE mode = "RGB"  -> Colours
      [] mode = "RGBA" -> {c \o <<a>> : c \in Colours, a \in Alphas}
      [] mode = "L"    -> {<<l>> : l \in Greys}
      [] mode = "LA"   -> {<<l, a>> : l \in Greys, a \in Alphas}
      [] mode = "P"    -> {<<i>> : i \in 1..Len(ModelPalette)}
      [] mode = "PA"   -> {<<i, a>> : i \in 1..Len(ModelPalette), a \in Alphas}

ImageOf(mode, px, palette, transparency) ==
    [mode |-> mode, px |-> px, palette |-> palette,
     transparency |-> transparency]

Modes == {"RGB", "RGBA", "L", "LA", "P", "PA"}

\* every image of 1..MaxPixels pixels over the values above
SmallImages ==
    UNION {
      {ImageOf(m, px,
               IF m \in {"P", "PA"} THEN ModelPalette ELSE <<>>,
               IF m = "P" THEN t ELSE <<>>) :
          px \in [1..n -> PixelsOf(m)],
          t \in IF m = "P" THEN Transparencies ELSE {<<>>}} :
      m \in Modes, n \in 1..MaxPixels}

\* Image.new('RGB', img.size, color)
New(size, color) == ImageOf("RGB", [k \in 1..size |-> color], <<>>, <<>>)

MaxColors == 256

\* an RGB image of n pixels, each of a colour of its own
Gradient(n) ==
    ImageOf("RGB", [k \in 1..n |-> <<(k - 1) % 256, (k - 1) \div 256, 0>>],
            <<>>, <<>>)

\* the image with an alpha band of the value a added to each pixel
PutAlpha(img, a) ==
    ImageOf("RGBA", [k \in 1..Len(img.px) |-> img.px[k] \o <<a>>],
            <<>>, <<>>)

\* images around the limit of the palette step: exactly MaxColors colours
\* and one more, with and without an opaque alpha band, and the all-white
\* image of 8x8 pixels
LargeImages ==
    {Gradient(MaxColors), Gradient(MaxColors + 1),
     PutAlpha(Gradient(MaxColors), Opaque),
     PutAlpha(Gradient(MaxColors + 1), Opaque),
     New(8 * 8, White)}

\* the images Image.open can give
OpenedImages == SmallImages \cup LargeImages

\* img.split()[-1]: the last band
LastBand(img) == [k \in 1..Len(img.px) |-> img.px[k][Len(img.px[k])]]

\* one pixel of convert('RGB'): alpha is dropped, grey is replicated, a
\* palette index is looked up
RGBOf(img, k) ==
    LET v == img.px[k]
    IN  CASE img.mode \in {"RGB", "RGBA"} -> <<v[1], v[2], v[3]>>
          [] img.mode \in {"L", "LA"}     -> <<v[1], v[1], v[1]>>
          [] img.mode \in {"P", "PA"}     -> img.palette[v[1]]

\* img.convert('RGB')
ConvertRGB(img) ==
    ImageOf("RGB", [k \in 1..Len(img.px) |-> RGBOf(img, k)], <<>>, <<>>)

\* img.convert('RGBA') of a palette image: the entry's colour and the alpha
\* the transparency data gives the entry
ConvertRGBA(img) ==
    ImageOf("RGBA",
            [k \in 1..Len(img.px) |->
                RGBOf(img, k) \o <<img.transparency[img.px[k][1]]>>],
            <<>>, <<>>)

\* the library's 8-bit division by 255, rounded
Div255(a) == LET tmp == a + 128 IN ((tmp \div 256) + tmp) \div 256

\* one band of a masked paste: in1 where the mask is 0, in2 where it is 255
Blend(mask, in1, in2) == Div255(in1 * (255 - mask) + in2 * mask)

\* background.paste(img): every pixel is replaced, img's alpha is ignored
Paste(background, img) == ConvertRGB(img)

\* background.paste(img, mask=alpha)
PasteMasked(background, img, mask) ==
    ImageOf("RGB",
            [k \in 1..Len(img.px) |->
                [b \in 1..3 |->
                    Blend(mask[k], background.px[k][b], RGBOf(img, k)[b])]],
            <<>>, <<>>)

\* the JPEG branch of compress_image, up to img.save
FlattenForJpeg(img) ==
    IF img.mode \in {"RGBA", "LA", "PA", "P"}
    THEN LET background == New(Len(img.px), White)
             img2 == IF img.mode = "P" THEN ConvertRGBA(img) ELSE img
         IN  IF img2.mode \in {"RGBA", "LA"}
             THEN PasteMasked(background, img2, LastBand(img2))
             ELSE Paste(background, img2)
    ELSE IF img.mode # "RGB"
    THEN ConvertRGB(img)
    ELSE img

\* alpha.getextrema()
GetExtrema(band) ==
    LET values == {band[k] : k \in 1..Len(band)}
    IN  <<CHOOSE v \in values : \A u \in values : v <= u,
          CHOOSE v \in values : \A u \in values : v >= u>>

\* a plausible slip: only the largest alpha is looked at
FullyOpaque_MaxOnly(alpha) == GetExtrema(alpha)[2] = Opaque

\* alpha.getextrema() == (255, 255)
FullyOpaque(alpha) == GetExtrema(alpha) = <<Opaque, Opaque>>

\* the distinct colours of an RGB image
Colors(img) == {img.px[k] : k \in 1..Len(img.px)}

\* a plausible slip: the limit itself counts as too many
GetColors_Below(img, maxcolors) ==
    IF Cardinality(Colors(img)) >= maxcolors THEN {} ELSE Colors(img)

\* img.getcolors(maxcolors): None, written {}, when there are more colours
\* than maxcolors (an image has at least one pixel, so at least one colour)
GetColors(img, maxcolors) ==
    IF Cardinality(Colors(img)) > maxcolors THEN {} ELSE Colors(img)

\* the positions at which a pixel value occurs for the first time
FirstOccurrences(px) ==
    {k \in 1..Len(px) : \A j \in 1..(k - 1) : px[j] # px[k]}

\* the distinct pixel values of a sequence of pixels, in the order in which
\* they first occur
DistinctColors(px) ==
    LET firsts == FirstOccurrences(px)
    IN  [i \in 1..Cardinality(firsts) |->
            px[CHOOSE k \in firsts :
                  Cardinality({j \in firsts : j <= k}) = i]]

\* img.convert('P', palette=ADAPTIVE, colors=n) of an image of exactly n
\* colours: the palette asked for has n entries, one per colour of the image
\* (here in the order of first occurrence), every pixel is the index of its
\* own colour, and there is no transparency
ConvertAdaptive(img, n) ==
    LET pal == SubSeq(DistinctColors(img.px), 1, n)
    IN  ImageOf("P",
                [k \in 1..Len(img.px) |->
                    <<CHOOSE i \in 1..n : pal[i] = img.px[k]>>],
                pal, [i \in 1..n |-> Opaque])

\* _optimize_png
OptimizePng(img) ==
    LET img1 == IF img.mode = "RGBA" /\ FullyOpaque(LastBand(img))
                THEN ConvertRGB(img)
                ELSE img
    IN  IF img1.mode = "RGB"
        THEN LET colors == GetColors(img1, MaxColors)
             IN  IF colors # {}
                 THEN ConvertAdaptive(img1, Cardinality(colors))
                 ELSE img1
        ELSE img1

\* the format-specific branch of compress_image: the format name given to
\* img.save and the image it is called on
PrepareForEncoder(output_format, img) ==
    IF Upper(output_format) \in {JPEG, JPG}
    THEN [format |-> JPEG, image |-> FlattenForJpeg(img)]
    ELSE IF Upper(output_format) = PNG
    THEN [format |-> PNG, image |-> OptimizePng(img)]
    ELSE IF Upper(output_format) = WEBP
    THEN [format |-> WEBP, image |-> img]
    ELSE [format |-> output_format, image |-> img]

\* --- the pipeline's steps, each on inputs of its own ----------------------
\* The configuration is an input of a step here, as the image and the path
\* are. `handed` holds the step to take and its arguments, and its result
\* once the step is taken.
OutputFormats == {None, <<>>} \cup FormatNames

Qualities == 1..100

PngCompressLevels == {0, DefaultPngCompressLevel}

EncoderConfigs ==
    {[CompressionConfig EXCEPT !.quality = q,
                               !.progressive_jpeg = pj,
                               !.png_optimize = po,
                               !.png_compress_level = l] :
        q \in Qualities, pj \in BOOLEAN, po \in BOOLEAN,
        l \in PngCompressLevels}

Step(op, args) == [op |-> op, args |-> args, done |-> FALSE, result |-> <<>>]

Steps ==
    {Step("target_format",
          [config |-> [CompressionConfig EXCEPT !.output_format = of],
           original_format |-> original_format,
           image_path |-> image_path]) :
        of \in OutputFormats, original_format \in OriginalFormats,
        image_path \in ImagePaths}
    \cup
    {Step("save_params", [config |-> cfg, format |-> format]) :
        cfg \in EncoderConfigs, format \in FormatNames}
    \cup
    {Step("process", [output_format |-> output_format, img |-> img]) :
        output_format \in FormatNames, img \in OpenedImages}

Taken(op) == handed.op = op /\ handed.done

DetermineFormat ==
    /\ handed.op = "target_format" /\ ~handed.done
    /\ handed' = [handed EXCEPT
          !.done = TRUE,
          !.result = TargetFormat(handed.args.config,
                                  handed.args.original_format,
                                  handed.args.image_path)]
    /\ UNCHANGED <<fs, config, last, appvars>>

PrepareSaveParams ==
    /\ handed.op = "save_params" /\ ~handed.done
    /\ handed' = [handed EXCEPT
          !.done = TRUE,
          !.result = GetSaveParams(handed.args.config, handed.args.format)]
    /\ UNCHANGED <<fs, config, last, appvars>>

ProcessImage ==
    /\ handed.op = "process" /\ ~handed.done
    /\ handed' = [handed EXCEPT
          !.done = TRUE,
          !.result = PrepareForEncoder(handed.args.output_format,
                                       handed.args.img)]
    /\ UNCHANGED <<fs, config, last, appvars>>

EncodeInit ==
    /\ fs = <<>>
    /\ config = CompressionConfig
    /\ last = NoCall
    /\ handed \in Steps
    /\ ui = NoApp
    /\ queue = <<>>
    /\ workers = <<>>

EncodeNext == DetermineFormat \/ PrepareSaveParams \/ ProcessImage

EncodeSpec == EncodeInit /\ [][EncodeNext]_vars

(***************************************************************************)
(* scan_for_images on a directory tree                                     *)
(***************************************************************************)
\* A tree is the set of its files, each the sequence of the directory names
\* from the root followed by the file's name.

\* str.lower() on one character
LowerChar(c) ==
    IF \E i \in 1..26 : UpperCase[i] = c
    THEN LowerCase[CHOOSE i \in 1..26 : UpperCase[i] = c]
    ELSE c

\* str.lower()
Lower(s) == [i \in 1..Len(s) |-> LowerChar(s[i])]

\* str.startswith
StartsWith(s, t) == Len(t) <= Len(s) /\ SubSeq(s, 1, Len(t)) = t

\* str.endswith
EndsWith(s, t) ==
    Len(t) <= Len(s) /\ SubSeq(s, Len(s) - Len(t) + 1, Len(s)) = t

\* t in s
Contains(s, t) ==
    \E i \in 1..(Len(s) - Len(t) + 1) : SubSeq(s, i, i + Len(t) - 1) = t

\* the code point of a character of the names used here
Ord(c) ==
    IF c = "." THEN 46
    ELSE IF c = "_" THEN 95
    ELSE IF \E i \in 1..26 : UpperCase[i] = c
    THEN 64 + CHOOSE i \in 1..26 : UpperCase[i] = c
    ELSE 96 + CHOOSE i \in 1..26 : LowerCase[i] = c

\* a < b on strings
StrLess(a, b) ==
    \E i \in 1..Len(b) :
       /\ \A j \in 1..(i - 1) : j <= Len(a) /\ a[j] = b[j]
       /\ \/ i = Len(a) + 1
          \/ i <= Len(a) /\ Ord(a[i]) < Ord(b[i])

\* p < q on paths: the order of their sequences of parts
PathLess(p, q) ==
    \E i \in 1..Len(q) :
       /\ \A j \in 1..(i - 1) : j <= Len(p) /\ p[j] = q[j]
       /\ \/ i = Len(p) + 1
          \/ i <= Len(p) /\ StrLess(p[i], q[i])

\* sorted(images)
Sorted(images) ==
    [i \in 1..Cardinality(images) |->
        CHOOSE p \in images :
            Cardinality({q \in images : PathLess(q, p)}) = i - 1]

\* get_image_extensions()
ImageExtensions ==
    {<<".","p","n","g">>, <<".","j","p","g">>, <<".","j","p","e","g">>, <<".","g","i","f">>, <<".","w","e","b","p">>, <<".","b","m","p">>, <<".","t","i","f","f">>}

Venv    == <<"v","e","n","v">>
DotVenv == <<".","v","e","n","v">>

OriginalMarker == <<"_","o","r","i","g","i","n","a","l">>
BackupMarker   == <<"_","b","a","c","k","u","p">>

\* a plausible slip: only hidden directories are pruned
KeepDir_HiddenOnly(d) == ~StartsWith(d, <<".">>)

\* the filter of dirs[:] in the walk
KeepDir(d) == ~StartsWith(d, <<".">>) /\ d # Venv /\ d # DotVenv

\* the tests a file name passes to be appended to images
KeepFile(file) ==
    /\ ~StartsWith(file, <<".">>)
    /\ ~(Contains(file, OriginalMarker) \/ Contains(file, BackupMarker))
    /\ \E ext \in ImageExtensions : EndsWith(Lower(file), ext)

\* the files os.walk lists in the directory root
FilesIn(tree, root) ==
    {p \in tree : Len(p) = Len(root) + 1 /\ SubSeq(p, 1, Len(root)) = root}

\* the subdirectories os.walk lists in the directory root
DirsIn(tree, root) ==
    {p[Len(root) + 1] : p \in {q \in tree : /\ Len(q) > Len(root) + 1
                                            /\ SubSeq(q, 1, Len(root)) = root}}

\* the loop over os.walk from root: the images of root, then those of every
\* subdirectory that is kept
RECURSIVE Walk(_, _)
Walk(tree, root) ==
    {p \in FilesIn(tree, root) : KeepFile(p[Len(p)])}
    \cup UNION {Walk(tree, Append(root, d)) :
                   d \in {x \in DirsIn(tree, root) : KeepDir(x)}}

\* scan_for_images(directory)
ScanForImages(tree) == Sorted(Walk(tree, <<>>))

\* the files a tree may hold: each test of the scan passed and failed, at
\* the root and below it
FilePool ==
    {<<<<"a",".","p","n","g">>>>,
     <<<<"B",".","J","P","G">>>>,
     <<<<".","h",".","p","n","g">>>>,
     <<<<"a","_","o","r","i","g","i","n","a","l",".","p","n","g">>>>,
     <<<<"x","_","b","a","c","k","u","p","_","y",".","g","i","f">>>>,
     <<<<"A","_","O","R","I","G","I","N","A","L",".","p","n","g">>>>,
     <<<<"n","o","t","e","s",".","t","x","t">>>>,
     <<<<"v","e","n","v",".","p","n","g">>>>,
     <<<<"s","u","b">>, <<"c",".","w","e","b","p">>>>,
     <<<<".","g","i","t">>, <<"d",".","p","n","g">>>>,
     <<<<"v","e","n","v">>, <<"e",".","b","m","p">>>>,
     <<<<"s","u","b">>, <<"v","e","n","v">>, <<"f",".","t","i","f","f">>>>,
     <<<<"s","u","b">>, <<".","v","e","n","v">>, <<"g",".","j","p","e","g">>>>,
     <<<<"s","u","b">>, <<"d","e","e","p">>, <<"h",".","j","p","e","g">>>>}

MaxFiles == 3

\* the trees of at most MaxFiles files
Trees == {t \in SUBSET FilePool : Cardinality(t) <= MaxFiles}

ScanSteps == {Step("scan", [directory |-> t]) : t \in Trees}

ScanDirectory ==
    /\ handed.op = "scan" /\ ~handed.done
    /\ handed' = [handed EXCEPT
          !.done = TRUE,
          !.result = ScanForImages(handed.args.directory)]
    /\ UNCHANGED <<fs, config, last, appvars>>

ScanInit ==
    /\ fs = <<>>
    /\ config = CompressionConfig
    /\ last = NoCall
    /\ handed \in ScanSteps
    /\ ui = NoApp
    /\ queue = <<>>
    /\ workers = <<>>

ScanNext == ScanDirectory

ScanSpec == ScanInit /\ [][ScanNext]_vars

(***************************************************************************)
(* Scanning and compressing in turn: a caller scans the directory and      *)
(* compresses, in place, images of the list the latest scan returned       *)
(***************************************************************************)
\* the directory of fs as a tree: its files, all at the root
TreeOf(f) == {<<p>> : p \in DOMAIN f}

\* scan_for_images on the directory as it is now
ScanFolder ==
    /\ handed' = [Step("scan", [directory |-> TreeOf(fs)]) EXCEPT
          !.done = TRUE,
          !.result = ScanForImages(TreeOf(fs))]
    /\ UNCHANGED <<fs, config, last, appvars>>

\* compress_image on an image of the latest scan's list
CompressScanned ==
    /\ handed.op = "scan"
    /\ \E k \in 1..Len(handed.result) :
          LET p == handed.result[k][1]
          IN  /\ WithinPaths(config, p, None)
              /\ \E o \in CompressImage(fs, config, p, None) :
                    /\ fs' = o[1]
                    /\ last' = o[2]
    /\ UNCHANGED <<config, handed, appvars>>

RescanNext == SetConfig \/ ScanFolder \/ CompressScanned

RescanSpec == Init /\ [][RescanNext]_vars

(***************************************************************************)
(* The window's scans: _scan_images at start-up and on Refresh, with its   *)
(* scan_thread and the callbacks it schedules                              *)
(***************************************************************************)
\* Here ui holds self.images and image_grid.cards (a dict, kept as the
\* sequence of its values in insertion order), the workers are scan threads.
MaxScans == 2

\* a scan thread: where it is in scan_thread, the list scan_for_images gave
\* it and the 1-based index of the current path
NoScan == [pc |-> "unborn", image_paths |-> <<>>, i |-> 0]

\* _scan_images, run by the main loop at start-up and by the Refresh button:
\* the grid and the list are cleared and a scan thread is started.  At most
\* MaxScans scans are started.
ScanImages ==
    /\ \E t \in DOMAIN workers :
          /\ workers[t].pc = "unborn"
          /\ \A u \in 1..(t - 1) : workers[u].pc # "unborn"
          /\ workers' = [workers EXCEPT ![t].pc = "scan"]
    /\ ui' = [ui EXCEPT !.cards = <<>>, !.images = <<>>]
    /\ UNCHANGED <<fs, config, last, handed, queue>>

\* scan_thread: image_paths = scan_for_images(self.project_dir)
ScanPaths(t) ==
    /\ workers[t].pc = "scan"
    /\ LET image_paths == ScanForImages(TreeOf(fs))
       IN  workers' = [workers EXCEPT
              ![t].image_paths = image_paths,
              ![t].i = 1,
              ![t].pc = IF image_paths = <<>> THEN "subtitle" ELSE "load"]
    /\ UNCHANGED <<fs, config, last, handed, ui, queue>>

\* the loop of scan_thread moves to the next path, or ends
NextPath(w) ==
    [w EXCEPT !.i = IF w.i < Len(w.image_paths) THEN w.i + 1 ELSE w.i,
              !.pc = IF w.i < Len(w.image_paths) THEN "load" ELSE "subtitle"]

\* scan_thread: info = self.compressor.get_image_info(path), which loads the
\* image or raises; an exception is printed and the path is passed over
LoadInfo(t) ==
    /\ workers[t].pc = "load"
    /\ \/ workers' = [workers EXCEPT ![t].pc = "append"]
       \/ workers' = [workers EXCEPT ![t] = NextPath(workers[t])]
    /\ UNCHANGED <<fs, config, last, handed, ui, queue>>

\* scan_thread: self.images.append(info)
AppendInfo(t) ==
    LET w == workers[t]
    IN  /\ w.pc = "append"
        /\ ui' = [ui EXCEPT !.images =
                     Append(ui.images, ImageInfo(fs, w.image_paths[w.i][1]))]
        /\ workers' = [workers EXCEPT ![t].pc = "post"]
        /\ UNCHANGED <<fs, config, last, handed, queue>>

\* scan_thread: self.after(0, lambda i=info: self.image_grid.add_image(i))
PostAddImage(t) ==
    LET w == workers[t]
    IN  /\ w.pc = "post"
        /\ queue' = Append(queue,
                       [kind |-> "add_image",
                        info |-> ImageInfo(fs, w.image_paths[w.i][1])])
        /\ workers' = [workers EXCEPT ![t] = NextPath(w)]
        /\ UNCHANGED <<fs, config, last, handed, ui>>

\* a scan thread that has returned
ScanDone == [NoScan EXCEPT !.pc = "done"]

\* scan_thread after the loop: schedule the subtitle; the thread ends
PostSubtitle(t) ==
    /\ workers[t].pc = "subtitle"
    /\ queue' = Append(queue, [kind |-> "subtitle"])
    /\ workers' = [workers EXCEPT ![t] = ScanDone]
    /\ UNCHANGED <<fs, config, last, handed, ui>>

ScanThreadStep ==
    \E t \in DOMAIN workers :
       \/ ScanPaths(t)
       \/ LoadInfo(t)
       \/ AppendInfo(t)
       \/ PostAddImage(t)
       \/ PostSubtitle(t)

\* ScrollableImageGrid.add_image: self.cards[image_info.path] = card
add_image(cards, image_info) ==
    IF \E k \in 1..Len(cards) : cards[k].path = image_info.path
    THEN [k \in 1..Len(cards) |->
             IF cards[k].path = image_info.path THEN image_info ELSE cards[k]]
    ELSE Append(cards, image_info)

\* the main loop runs the oldest callback a scan thread scheduled; the text
\* of the subtitle is not part of the state
RunScanCallback ==
    /\ queue # <<>>
    /\ LET cb == Head(queue)
       IN  ui' = IF cb.kind = "add_image"
                 THEN [ui EXCEPT !.cards = add_image(ui.cards, cb.info)]
                 ELSE ui
    /\ queue' = Tail(queue)
    /\ UNCHANGED <<fs, config, last, handed, workers>>

\* the window as __init__ leaves it, before its first scan
ScanAppInit ==
    /\ fs = (a_png :> a_bytes) @@ (b_jpg :> b_bytes)
    /\ config = CompressionConfig
    /\ last = NoCall
    /\ handed = NoStep
    /\ ui = [cards |-> <<>>, images |-> <<>>]
    /\ queue = <<>>
    /\ workers = [t \in 1..MaxScans |-> NoScan]

ScanAppNext == ScanImages \/ ScanThreadStep \/ RunScanCallback

ScanAppSpec == ScanAppInit /\ [][ScanAppNext]_vars

(***************************************************************************)
(* Claims about the batch worker (checked under FairAppSpec)               *)
(***************************************************************************)
\* the paths of a worker's calls, in the order they were made
CalledPaths(w) == [k \in 1..Len(w.calls) |-> w.calls[k][1]]

\* the worker has left the loop of compress_thread
PastLoop(w) == w.pc \in {"complete", "summary"}

\* C6: a batch runs to completion despite failures: at every moment the
\* worker has called compress_image once for each image up to the current
\* one, in selection order, whatever the earlier calls returned; when it
\* leaves the loop it has called it exactly once for each selected image;
\* and once it has left the loop, _compression_complete eventually runs
\* (progress hidden, compress button enabled again).
C6_BatchRunsToCompletion ==
    /\ [](\A t \in 1..MaxBatches :
            LET w == workers[t]
            IN  /\ w.pc \in {"progress", "compress"} =>
                      CalledPaths(w) = SubSeq(w.selected, 1, w.i - 1)
                /\ w.pc = "status" =>
                      CalledPaths(w) = SubSeq(w.selected, 1, w.i)
                /\ PastLoop(w) => CalledPaths(w) = w.selected)
    /\ \A t \in 1..MaxBatches :
          (workers[t].pc = "progress" /\ workers[t].i = 1)
             ~> (workers[t].pc = "done"
                 /\ ui.compress_btn = "normal" /\ ~ui.progress_shown)

\* C6 witness: a worker has left the loop after two calls, the first of which
\* failed and the second of which succeeded.
C6_Witness ==
    \E t \in 1..MaxBatches :
       /\ PastLoop(workers[t])
       /\ Len(workers[t].calls) = 2
       /\ ~workers[t].calls[1][2]
       /\ workers[t].calls[2][2]

(***************************************************************************)
(* Claims about the encoding pipeline (checked under EncodeSpec)           *)
(***************************************************************************)
\* the extension of a file name: what follows the dot of its suffix, in
\* upper case
ExtensionUpper(image_path) == Upper(Tail(Suffix(image_path)))

\* format names compared without regard to case
SameName(a, b) == Upper(a) = Upper(b)

\* C7 as the specification words it: the target format is the library's
\* format metadata of the opened image when present and the upper-cased
\* extension otherwise, and nothing else influences it.
C7_Original ==
    Taken("target_format") =>
        handed.result =
            IF handed.args.original_format # None
            THEN handed.args.original_format
            ELSE ExtensionUpper(handed.args.image_path)

\* C7: the target format is config.output_format when one is configured
\* (neither None nor empty); otherwise the library's format metadata of the
\* opened image when present; otherwise the extension in upper case without
\* the dot.
C7_TargetFormat ==
    Taken("target_format") =>
        handed.result =
            IF Truthy(handed.args.config.output_format)
            THEN handed.args.config.output_format
            ELSE IF handed.args.original_format # None
            THEN handed.args.original_format
            ELSE ExtensionUpper(handed.args.image_path)

\* C7 witness: a configured format that differs from the format the library
\* reports for the image is the one chosen.
C7_Witness ==
    /\ Taken("target_format")
    /\ Truthy(handed.args.config.output_format)
    /\ handed.args.original_format # None
    /\ handed.args.config.output_format # handed.args.original_format
    /\ handed.result = handed.args.config.output_format

\* C8: the options passed to the encoder are exactly quality, optimize=true
\* and progressive for JPEG/JPG, optimize and compress_level for PNG, quality
\* and method=6 for WEBP, optimize=true for GIF and none for any other
\* format, the format name matched without regard to case and
\* config.quality passed on unchanged for every value in 1..100.
C8_EncoderOptions ==
    Taken("save_params") =>
        LET cfg == handed.args.config
            f   == handed.args.format
            k   == handed.result
        IN  /\ (SameName(f, JPEG) \/ SameName(f, JPG)) =>
                  k = [quality |-> cfg.quality, optimize |-> TRUE,
                       progressive |-> cfg.progressive_jpeg]
            /\ SameName(f, PNG) =>
                  k = [optimize |-> cfg.png_optimize,
                       compress_level |-> cfg.png_compress_level]
            /\ SameName(f, WEBP) =>
                  k = [quality |-> cfg.quality, method |-> 6]
            /\ SameName(f, GIF) => k = [optimize |-> TRUE]
            /\ (\A n \in {JPEG, JPG, PNG, WEBP, GIF} : ~SameName(f, n)) =>
                  DOMAIN k = {}

\* C8 witness: a lower-case format name and the smallest quality: the JPEG
\* options, with quality 1 passed on as it is.
C8_Witness ==
    /\ Taken("save_params")
    /\ handed.args.format = jpeg
    /\ handed.args.config.quality = 1
    /\ ~handed.args.config.progressive_jpeg
    /\ handed.result = [quality |-> 1, optimize |-> TRUE,
                        progressive |-> FALSE]

\* the alpha of a pixel of the source: its alpha band, or for a palette
\* image without one the alpha its transparency data gives the entry
SourceAlpha(img, k) ==
    CASE img.mode = "RGBA"         -> img.px[k][4]
      [] img.mode \in {"LA", "PA"} -> img.px[k][2]
      [] img.mode = "P"            -> img.transparency[img.px[k][1]]

\* a pixel of the source composited over white with its alpha as mask
OverWhite(img, k) ==
    [b \in 1..3 |-> Blend(SourceAlpha(img, k), White[b], RGBOf(img, k)[b])]

TargetsJpeg == SameName(handed.args.output_format, JPEG)
               \/ SameName(handed.args.output_format, JPG)

\* C9: when the target format is JPEG the image handed to the encoder is in
\* RGB mode; for a source in mode RGBA, LA, PA or P every pixel of it is the
\* source pixel composited over white (255,255,255) with the source's alpha
\* as mask, so a fully transparent pixel is white; a source in any other
\* mode is converted to RGB.
C9_JpegFlattening ==
    (Taken("process") /\ TargetsJpeg) =>
        LET img == handed.args.img
            out == handed.result.image
        IN  /\ handed.result.format = JPEG
            /\ out.mode = "RGB"
            /\ Len(out.px) = Len(img.px)
            /\ IF img.mode \in {"RGBA", "LA", "PA", "P"}
               THEN \A k \in 1..Len(img.px) :
                       /\ out.px[k] = OverWhite(img, k)
                       /\ SourceAlpha(img, k) = 0 => out.px[k] = White
               ELSE out = ConvertRGB(img)

\* The case C9 fails on: a PA image with a fully transparent pixel whose
\* palette colour is not white reaches the encoder with that pixel in its
\* palette colour.
C9_Witness ==
    /\ Taken("process")
    /\ TargetsJpeg
    /\ handed.args.img.mode = "PA"
    /\ \E k \in 1..Len(handed.args.img.px) :
          /\ handed.args.img.px[k][2] = 0
          /\ handed.result.image.px[k] # White
          /\ handed.result.image.px[k] =
                handed.args.img.palette[handed.args.img.px[k][1]]

\* an image with an alpha band
HasAlpha(img) == img.mode \in {"RGBA", "LA", "PA"}

\* every pixel of the image is fully opaque
OpaqueEverywhere(img) == \A k \in 1..Len(img.px) : SourceAlpha(img, k) = 255

TargetsPng == SameName(handed.args.output_format, PNG)

\* C10 as the specification words it: every PNG-target image with an alpha
\* channel that is fully opaque at every pixel leaves _optimize_png without
\* an alpha channel, and one with a non-opaque alpha value keeps its alpha
\* channel.
C10_Original ==
    (Taken("process") /\ TargetsPng /\ HasAlpha(handed.args.img)) =>
        LET img == handed.args.img
            out == handed.result.image
        IN  IF OpaqueEverywhere(img)
            THEN ~HasAlpha(out)
            ELSE HasAlpha(out) /\ LastBand(out) = LastBand(img)

\* C10: a PNG-target image in RGBA mode whose alpha is fully opaque at every
\* pixel leaves _optimize_png without an alpha channel and with the same
\* colours; an image whose alpha band has a non-opaque value, and any image
\* in mode LA or PA whatever its alpha, is returned as it is, alpha channel
\* included.
C10_AlphaDrop ==
    (Taken("process") /\ TargetsPng /\ HasAlpha(handed.args.img)) =>
        LET img == handed.args.img
            out == handed.result.image
        IN  IF img.mode = "RGBA" /\ OpaqueEverywhere(img)
            THEN /\ ~HasAlpha(out)
                 /\ ConvertRGB(out) = ConvertRGB(img)
            ELSE out = img

\* C10 witness: an opaque two-pixel RGBA image has lost its alpha channel.
C10_Witness ==
    /\ Taken("process")
    /\ TargetsPng
    /\ handed.args.img.mode = "RGBA"
    /\ Len(handed.args.img.px) = 2
    /\ OpaqueEverywhere(handed.args.img)
    /\ ~HasAlpha(handed.result.image)

\* the image as the alpha-drop step leaves it
AfterAlphaDrop(img) ==
    IF img.mode = "RGBA" /\ OpaqueEverywhere(img)
    THEN ImageOf("RGB",
                 [k \in 1..Len(img.px) |-> SubSeq(img.px[k], 1, 3)],
                 <<>>, <<>>)
    ELSE img

\* the number of distinct colours an image uses
ColorCount(img) == Cardinality({img.px[k] : k \in 1..Len(img.px)})

\* C11: a PNG-target image that is in RGB mode after the alpha-drop step and
\* uses k <= 256 distinct colours is converted to a palette image whose
\* palette was asked for with exactly k colours and whose pixels show the
\* colours they had; one that uses more than 256 distinct colours is left as
\* it is, in RGB mode.
C11_PaletteConversion ==
    (Taken("process") /\ TargetsPng
        /\ AfterAlphaDrop(handed.args.img).mode = "RGB") =>
        LET rgb == AfterAlphaDrop(handed.args.img)
            out == handed.result.image
            k   == ColorCount(rgb)
        IN  IF k <= 256
            THEN /\ out.mode = "P"
                 /\ Len(out.palette) = k
                 /\ ConvertRGB(out) = rgb
            ELSE out = rgb

\* C11 witness: an image of exactly 256 colours has become a palette image
\* with a palette of 256 entries.
C11_Witness ==
    /\ Taken("process")
    /\ TargetsPng
    /\ handed.args.img.mode = "RGB"
    /\ ColorCount(handed.args.img) = 256
    /\ handed.result.image.mode = "P"
    /\ Len(handed.result.image.palette) = 256

(***************************************************************************)
(* Claims about the directory scan (checked under ScanSpec)                *)
(***************************************************************************)
\* a name is hidden
Hidden(name) == name # <<>> /\ name[1] = "."

\* the file qualifies: an image extension whatever its case, not hidden, no
\* directory above it hidden or a tooling directory, no backup marker in
\* its name
Qualifies(p) ==
    LET name == p[Len(p)]
    IN  /\ \E ext \in ImageExtensions :
              /\ Len(name) >= Len(ext)
              /\ \A i \in 1..Len(ext) :
                    LowerChar(name[Len(name) - Len(ext) + i]) = ext[i]
        /\ ~Hidden(name)
        /\ \A i \in 1..(Len(p) - 1) :
              ~Hidden(p[i]) /\ p[i] \notin {Venv, DotVenv}
        /\ ~Contains(name, OriginalMarker)
        /\ ~Contains(name, BackupMarker)

\* C12: scan_for_images returns, in ascending order and without duplicates,
\* exactly the qualifying files of the tree: no other file is returned and
\* no qualifying file is left out.
C12_ScanResult ==
    Taken("scan") =>
        LET tree   == handed.args.directory
            images == handed.result
        IN  /\ \A i \in 1..(Len(images) - 1) :
                  PathLess(images[i], images[i + 1])
            /\ \A i, j \in 1..Len(images) : i # j => images[i] # images[j]
            /\ {images[i] : i \in 1..Len(images)} =
                  {p \in tree : Qualifies(p)}

\* C12 witness: a tree with a file below a tooling directory and a
\* qualifying file below another directory: the scan returned two files,
\* the latter of them last.
C12_Witness ==
    /\ Taken("scan")
    /\ Len(handed.result) = 2
    /\ \E p \in handed.args.directory :
          Len(p) = 2 /\ p[1] = Venv
    /\ \E p \in handed.args.directory :
          Len(p) = 2 /\ p[1] # Venv /\ handed.result[2] = p

(***************************************************************************)
(* Claims about the window during a batch (checked under FairAppSpec)      *)
(***************************************************************************)
\* a batch has been started and _compression_complete has not run yet
BatchRunning == ui.compress_btn = "disabled"

\* C13: from the start of a batch until _compression_complete runs no field
\* of the compressor's config changes, whatever the user does with the
\* quality slider and the backup checkbox meanwhile.
C13_ConfigImmutable == [][BatchRunning => config' = config]_vars

\* The case C13 fails on: the two images of one batch were compressed with
\* different qualities.
C13_Witness ==
    \E t \in DOMAIN workers :
       /\ Len(workers[t].calls) = 2
       /\ workers[t].calls[1][3] # workers[t].calls[2][3]

\* the step in which the worker issues the progress update of its i-th item
ProgressIssued(t, i) ==
    /\ workers[t].pc = "progress"
    /\ workers[t].i = i
    /\ workers'[t].pc = "compress"
    /\ Len(queue') > Len(queue)
    /\ queue'[Len(queue) + 1] =
          [kind |-> "progress", num |-> i * 100,
           den |-> Len(workers[t].selected)]

\* C14: a batch compresses its images one at a time (a worker makes one
\* compress_image call at a time, in one thread), and the progress update of
\* the i-th item, of value i/N*100, is issued when compress_image has
\* returned for the i-th item, never before that call has started.
C14_ProgressAfterItem ==
    [][\A t \in DOMAIN workers :
          \A i \in 1..Len(workers[t].selected) :
             ProgressIssued(t, i) => Len(workers[t].calls) >= i]_vars

\* The case C14 fails on: in a batch of one image the bar shows 100/1 while
\* the worker has not called compress_image yet.
C14_Witness ==
    \E t \in DOMAIN workers :
       /\ workers[t].pc = "compress"
       /\ Len(workers[t].selected) = 1
       /\ workers[t].calls = <<>>
       /\ ui.progress_value = <<100, 1>>

(***************************************************************************)
(* Claims about scanning after compressing (checked under RescanSpec)      *)
(***************************************************************************)
\* The directory starts with the one image a.png, and compress_image called
\* in place creates no file but a backup: every other file of the directory
\* is a backup copy that a compress_image call created.
BackupCopies == DOMAIN fs \ {a_png}

\* C15: whatever backup_suffix is configured, no scan returns a backup copy
\* that compress_image created, and so no call made on a scanned image
\* compresses a backup copy.
C15_BackupsNeverRescanned ==
    /\ Taken("scan") =>
          \A k \in 1..Len(handed.result) :
             handed.result[k][1] \notin BackupCopies
    /\ last # NoCall => last.path \notin BackupCopies

\* The case C15 fails on: with the suffix '_bak' the backup a_bak.png was
\* returned by a scan and then overwritten by a compress_image call.
C15_Witness ==
    /\ Taken("scan")
    /\ \E k \in 1..Len(handed.result) : handed.result[k] = <<a_bak_png>>
    /\ last.path = a_bak_png
    /\ last.wrote

(***************************************************************************)
(* Claims about repeated batches (checked under ClickSpec)                 *)
(***************************************************************************)
\* the thread of the worker has been started and has not returned
Alive(w) == w.pc \notin {"unborn", "done"}

\* the worker is in the loop of compress_thread or about to schedule
\* _compression_complete: its compress_image calls are made from here
InLoop(w) == w.pc \in {"progress", "compress", "status", "complete"}

\* C16 as the specification words it: no second batch thread is started
\* while one is running, so at most one compress_thread is alive.
C16_Original ==
    \A t, u \in DOMAIN workers :
       (Alive(workers[t]) /\ Alive(workers[u])) => t = u

\* C16: the compress button is disabled from the start of a batch until
\* _compression_complete runs, and no batch thread is started before the
\* thread of the batch before it has left its loop and scheduled
\* _compression_complete: at most one thread is where compress_image is
\* called, so no two threads execute compress_image at the same time.
C16_OneBatchCompressing ==
    /\ \A t, u \in DOMAIN workers :
          (InLoop(workers[t]) /\ InLoop(workers[u])) => t = u
    /\ \A t \in DOMAIN workers :
          InLoop(workers[t]) => ui.compress_btn = "disabled"

\* C16 witness: the second batch is compressing while the thread of the
\* first, which has scheduled _compression_complete, has not returned yet.
C16_Witness ==
    /\ workers[1].pc = "summary"
    /\ workers[2].pc = "compress"
    /\ ui.compress_btn = "disabled"

(***************************************************************************)
(* Claims about the window's scans (checked under ScanAppSpec)             *)
(***************************************************************************)
\* a scan has been made, every scan thread has returned and every callback
\* has run
ScansSettled ==
    /\ \A t \in DOMAIN workers : workers[t].pc \in {"unborn", "done"}
    /\ \E t \in DOMAIN workers : workers[t].pc = "done"
    /\ queue = <<>>

\* C17: once all scan threads have finished and all their callbacks have
\* run, self.images holds no path twice and its paths are the keys of
\* image_grid.cards.
C17_ScanConsistent ==
    ScansSettled =>
        /\ \A i, j \in 1..Len(ui.images) :
              ui.images[i].path = ui.images[j].path => i = j
        /\ {ui.images[i].path : i \in 1..Len(ui.images)} =
              {ui.cards[k].path : k \in 1..Len(ui.cards)}

\* The case C17 fails on: after a Refresh during the first scan, everything
\* settled, self.images holds b.jpg twice.
C17_Witness ==
    /\ ScansSettled
    /\ \E i, j \in 1..Len(ui.images) :
          i # j /\ ui.images[i].path = b_jpg /\ ui.images[j].path = b_jpg

====
